---- MODULE Spec2Model ----
(***************************************************************************)
(* Model of the case-opening backend (backend/src/index.ts and its         *)
(* database schema).  index.ts holds three successive revisions of the     *)
(* same Express service (lines 1-423, 424-1019, 1020-1519); the variable   *)
(* rev says which of them is running.  Every route handler is an async     *)
(* function on ONE sqlite connection: each `await db.get/run/all` is a     *)
(* point where another request's statements can be executed, so a handler  *)
(* is modelled as one action per awaited statement, each action running    *)
(* the statement and the synchronous code up to the next await.            *)
(***************************************************************************)
EXTENDS Integers, Sequences, FiniteSets, TLC

\* ---------------------------------------------------------------- bounds
MaxReq == 3         \* concurrent opens issued in one behaviour of Spec
MaxWideReq == 2     \* requests issued in one behaviour of SpecWide
MaxDeepReq == 4     \* opens issued in one behaviour of SpecDeep
MaxDay == 1         \* the clock of SpecWide runs over the Riga days 0..MaxDay
MaxPays == 2        \* payment records in one fetched list of SpecPay
MaxInvReq == 2      \* requests issued in one behaviour of SpecInv

\* ------------------------------------------------------- small universes
Users == {"u1", "u2"}
CaseIds == {"c1"}
Revs == {1, 2, 3}

NoKey == << >>

\* ------------------------------------------------------------ the clock
\* Day t of the model is a Riga calendar date: day 0 is 2026-01-31, day 1
\* is 2026-02-01 and so on into February; day -1 is 2026-01-30.
rigaDateParts(t) ==
    IF t <= 0 THEN [y |-> 2026, m |-> 1, d |-> 31 + t]
              ELSE [y |-> 2026, m |-> 2, d |-> t]

\* `${y}-${m}-${d}`: fixed-width fields, written here as the tuple of fields
getRigaDayKey(t) == << rigaDateParts(t).y, rigaDateParts(t).m, rigaDateParts(t).d >>
\* `${y}-${m}`
getRigaMonthKey(t) == << rigaDateParts(t).y, rigaDateParts(t).m >>

\* String.prototype.startsWith on keys written as tuples of fields
startsWith(s, p) ==
    /\ Len(p) <= Len(s)
    /\ \A i \in 1..Len(p) : s[i] = p[i]

\* ------------------------------------------------- the billing gateway
\* A payment record of getPaymentsByClientId, reduced to what the progress
\* calculation reads.  created_at is [fmt, y, m, d]: fmt "iso" is
\* "YYYY-MM-DD...", fmt "dot" is "DD.MM.YYYY...", fmt "bad" is anything else.
\* title is the free text; tag says whether items[] holds a type "DEPOSIT".
\* riga is the Riga day on which the payment was made (not a field the code
\* can read: it sees only the text of created_at).
Pay(fmt, t, title, tag, refunded, val) ==
    [created_at |-> [fmt |-> fmt, y |-> rigaDateParts(t).y,
                     m |-> rigaDateParts(t).m, d |-> rigaDateParts(t).d],
     title |-> title, tag |-> tag, is_refunded |-> refunded, val |-> val,
     riga |-> t]

\* A payment made on Riga day t in the first hours after midnight, whose
\* created_at the gateway writes in a zone `behind` days behind Riga at that
\* hour: 0 for Riga local time, 1 for UTC ("2026-01-30T22:30:00Z" is
\* 2026-01-31 00:30 in Riga).
PayWritten(fmt, t, behind, title, tag, refunded, val) ==
    [Pay(fmt, t - behind, title, tag, refunded, val) EXCEPT !.riga = t]

\* normalizeDatePart: both accepted formats give the <<y, m, d>> key
normalizeDatePart(createdAt) ==
    IF createdAt.fmt = "iso" THEN << createdAt.y, createdAt.m, createdAt.d >>
    ELSE IF createdAt.fmt = "dot" THEN << createdAt.y, createdAt.m, createdAt.d >>
    ELSE NoKey

\* the deposit classification of calculateProgress (revision 1) and of
\* calculateProgressSafe (revisions 2 and 3)
isDeposit(r, p) ==
    IF r = 1 THEN p.tag \/ p.title = "popolnenie"
             ELSE p.title \in {"popolnenie", "deposit", "top-up"} \/ p.tag

\* the loop without its `p.is_refunded` test
CountsRefunded(r, p) == isDeposit(r, p) /\ p.val > 0
                        /\ normalizeDatePart(p.created_at) # NoKey

\* does payment p count, and into which bucket
Counts(r, p) == isDeposit(r, p) /\ ~p.is_refunded /\ p.val > 0
                /\ normalizeDatePart(p.created_at) # NoKey

RECURSIVE SumDaily(_, _, _), SumMonthly(_, _, _)
SumDaily(r, ps, t) ==
    IF ps = << >> THEN 0
    ELSE (IF Counts(r, Head(ps))
             /\ normalizeDatePart(Head(ps).created_at) = getRigaDayKey(t)
          THEN Head(ps).val ELSE 0) + SumDaily(r, Tail(ps), t)
SumMonthly(r, ps, t) ==
    IF ps = << >> THEN 0
    ELSE (IF Counts(r, Head(ps))
             /\ startsWith(normalizeDatePart(Head(ps).created_at), getRigaMonthKey(t))
          THEN Head(ps).val ELSE 0) + SumMonthly(r, Tail(ps), t)

\* the loop of calculateProgress / calculateProgressSafe over a fetched list
\* (amounts are whole euros here, so the rounding to cents changes nothing)
SumProgress(r, ps, t) == [daily |-> SumDaily(r, ps, t), monthly |-> SumMonthly(r, ps, t)]

\* What the gateway answers to one progress computation: a failure (HTTP
\* error, GraphQL error, network failure, timeout, no service token) or the
\* list of payment records.
Deposit == 15
PaymentLists ==
    { << >>,
      << Pay("iso", -1, "popolnenie", FALSE, FALSE, Deposit) >>,
      << Pay("iso", 0, "popolnenie", FALSE, FALSE, Deposit) >>,
      << Pay("dot", 1, "other", TRUE, FALSE, Deposit) >> }
BillingAnswers ==
    {[ok |-> FALSE, data |-> << >>]} \cup {[ok |-> TRUE, data |-> l] : l \in PaymentLists}

\* calculateProgress (revision 1) lets the gateway's error escape;
\* calculateProgressSafe (revisions 2, 3) catches it and returns zeros.
\* Result: [threw, daily, monthly]
calculateProgress(r, ans, t) ==
    IF ~ans.ok
    THEN [threw |-> (r = 1), daily |-> 0, monthly |-> 0]
    ELSE [threw |-> FALSE, daily |-> SumProgress(r, ans.data, t).daily,
          monthly |-> SumProgress(r, ans.data, t).monthly]

\* one call of calculateProgress: ps is what the gateway returned, out the
\* totals the function returned on day at (done = FALSE while it has not)
NoCalc == [ps |-> << >>, done |-> FALSE, at |-> 0, daily |-> 0, monthly |-> 0]

\* ----------------------------------------------------------- the catalog
\* The sqlite file outlives the process (CREATE TABLE IF NOT EXISTS), so the
\* service starts on a catalog an operator saved earlier through
\* POST /api/admin/items and saveCaseHandler.
Threshold == 10

Items == [i1 |-> [type |-> "skin"], i2 |-> [type |-> "money"], i3 |-> [type |-> "physical"]]

Link(c, i, w) == [case_id |-> c, item_id |-> i, weight |-> w]
Case(type, thr, act) == [type |-> type, threshold_eur |-> thr, is_active |-> act]

NoCases == [x \in {} |-> Case("daily", 0, 0)]
Catalog(cfg, links) == [cases |-> [x \in {"c1"} |-> cfg], case_items |-> links]

\* a published daily case with a skin and a money prize
CoreCatalog ==
    Catalog(Case("daily", Threshold, 1), << Link("c1", "i1", 1), Link("c1", "i2", 1) >>)

Catalogs ==
    { CoreCatalog,
      \* a draft (is_active = 0) monthly case whose links were saved with weight 0
      Catalog(Case("monthly", Threshold, 0), << Link("c1", "i2", 0), Link("c1", "i1", 0) >>),
      \* a published monthly case
      Catalog(Case("monthly", Threshold, 1), << Link("c1", "i1", 2), Link("c1", "i2", 1) >>),
      \* a daily case saved without a threshold (0)
      Catalog(Case("daily", 0, 1), << Link("c1", "i1", 1) >>),
      \* a daily case saved with no items
      Catalog(Case("daily", Threshold, 1), << >>),
      \* no case at all
      [cases |-> NoCases, case_items |-> << >>] }

\* ------------------------------------------------- the service token
\* Date.now() advances in steps of 30 seconds up to MaxClock; the gateway's
\* expires_in is one of ExpiresIn (seconds)
ClockStep == 30
MaxClock == 150
ExpiresIn == {30, 90, 120}
\* `(data.login.expires_in - 60) * 1000`
Margin == 60
\* _serviceToken = null
NoServiceToken == 0

\* at, ttl: when the cached token was received and its expires_in
NoSvc == [clock |-> 0, token |-> NoServiceToken, exp |-> 0, at |-> 0, ttl |-> 0,
          calls |-> << >>]

\* _serviceTokenExp without the margin
serviceTokenExpWhole(t, ttl) == t + ttl

\* _serviceTokenExp = Date.now() + (data.login.expires_in - 60) * 1000
serviceTokenExp(t, ttl) == t + (ttl - Margin)

\* no draw has been set up
NoDraw == [cis |-> << >>, rnd2 |-> 0, sel |-> 0, pc |-> "idle"]

\* ------------------------------------------------------------- the state
VARIABLES
    rev,          \* which revision of index.ts is running (1, 2 or 3)
    uniqueClaims, \* does case_claims carry UNIQUE(user_uuid, case_id, period_key)
    now,          \* the current Riga day
    db,           \* the tables as the single sqlite connection sees them
    inTx,         \* is a transaction open on the connection
    snap,         \* the tables as they were at the BEGIN of the open transaction
    reqs,         \* the requests issued so far: handler position and locals
    limit,        \* how many requests are issued in this behaviour
    calc,         \* one progress computation: the fetched list and its result
    foreignKeys,  \* does case_items declare its foreign keys (database.ts) or
                  \* not (the initDB of part_002); the file outlives the code
    svc,          \* the service token cache (_serviceToken, _serviceTokenExp),
                  \* Date.now() in seconds, and the calls of getServiceToken
    draw          \* one weighted draw: caseItems, rnd, the selected link

\* what the case engine's handlers never touch
side == << calc, foreignKeys, svc, draw >>

vars == << rev, uniqueClaims, now, db, inTx, snap, reqs, limit, calc, foreignKeys, svc, draw >>

\* ------------------------------------------------------- table helpers
Append1(d, table, row) == [d EXCEPT ![table] = Append(@, row)]

\* the lookup without its period_key condition
HasClaimAnyPeriod(d, u, c, k) ==
    \E i \in 1..Len(d.case_claims) :
        /\ d.case_claims[i].user_uuid = u
        /\ d.case_claims[i].case_id = c

\* SELECT id FROM case_claims WHERE user_uuid=? AND case_id=? AND period_key=?
HasClaim(d, u, c, k) ==
    \E i \in 1..Len(d.case_claims) :
        /\ d.case_claims[i].user_uuid = u
        /\ d.case_claims[i].case_id = c
        /\ d.case_claims[i].period_key = k

\* SELECT * FROM case_items WHERE case_id = ?            (revision 1)
\* SELECT ci.*, i.* FROM case_items ci JOIN items i ...  (revisions 2, 3)
CaseItems(r, d, c) ==
    LET Mine(l) == l.case_id = c /\ (r = 1 \/ l.item_id \in DOMAIN d.items)
    IN SelectSeq(d.case_items, Mine)

RECURSIVE totalWeight(_)
totalWeight(cis) == IF cis = << >> THEN 0 ELSE Head(cis).weight + totalWeight(Tail(cis))

\* Math.random() * totalWeight lies in [0, totalWeight); the draw is taken
\* in half units (rnd2 = 2 * rnd) so that both the values between two
\* cumulative weights and the values on them occur.
Rolls(cis) ==
    IF totalWeight(cis) > 0 THEN 0..(2 * totalWeight(cis) - 1)
    ELSE IF totalWeight(cis) < 0 THEN (2 * totalWeight(cis) + 1)..0
    ELSE {0}

\* the walk `rnd -= weight; if (rnd <= 0) select`: index of the first link
\* that brings rnd to 0 or below, from position i on; 0 when none does
RECURSIVE Walk(_, _, _)
Walk(cis, rnd2, i) ==
    IF i > Len(cis) THEN 0
    ELSE IF rnd2 - 2 * cis[i].weight <= 0 THEN i
    ELSE Walk(cis, rnd2 - 2 * cis[i].weight, i + 1)

\* the selected link: the walk's, else caseItems[0]; 0 stands for undefined
\* (caseItems[0] of an empty list)
Selected(cis, rnd2) ==
    IF Walk(cis, rnd2, 1) # 0 THEN Walk(cis, rnd2, 1)
    ELSE IF Len(cis) > 0 THEN 1 ELSE 0

\* caseMeta.type === "daily" / type.includes("daily")
IsDaily(type) == type = "daily"
PeriodKey(type, t) == IF IsDaily(type) THEN getRigaDayKey(t) ELSE getRigaMonthKey(t)

\* the period_key written to the spins row: the claim's key in revision 1,
\* getRigaDayKey() in revisions 2 and 3
SpinKey(r, pkey, t) == IF r = 1 THEN pkey ELSE getRigaDayKey(t)

\* the status of a freshly granted inventory row
GrantStatus(r) == IF r = 1 THEN "PENDING" ELSE "available"

\* ------------------------------------------------------------- requests
NoId == -1
\* no row in cases
NoCase == [type |-> "none", threshold_eur |-> 0, is_active |-> 0]
NoBody == [def |-> NoCase, links |-> << >>]
\* no Authorization header, and a bearer token no login has issued; a login's
\* token (crypto.randomUUID()) is modelled by the number of its request
NoToken == 0
ForgedToken == 99

NewReq(kind, u, c, pc) ==
    [kind |-> kind, user |-> u, case |-> c, pc |-> pc,
     ctype |-> "none", thr |-> 0, pkey |-> NoKey,
     failed |-> FALSE, low |-> FALSE, daily |-> 0, monthly |-> 0,
     sel |-> "none", seltype |-> "none", lastID |-> 0,
     err |-> "none", resp |-> "none", pt |-> 0, seen |-> << >>, avail |-> {},
     prior |-> {},
     \* inventory and redemption handlers: req.body.inventory_id, the type
     \* and status of the row read ("none": no row), req.params.id, session.trade_link, the operator's
     \* verdict and req.body.comment
     inv |-> 0, itype |-> "none", istatus |-> "none", rid |-> NoId, tl |-> FALSE,
     verdict |-> "none", comment |-> "none",
     \* the bearer token presented (protected routes) or issued (login)
     token |-> NoToken,
     \* catalog writes: req.body (an item's type, a case's definition and
     \* items), the items still to insert, and, for the properties only, the
     \* case's committed definition and links when the handler began
     body |-> NoBody, left |-> << >>, was |-> NoBody]

At(r, pc) == r \in DOMAIN reqs /\ reqs[r].pc = pc

\* the handler answers (or, for "UNHANDLED", dies on a rejected promise
\* without answering) and ends; its locals are gone, what is kept is what
\* the request was, what it saw of the gateway and what it answered
Reply(q, resp) ==
    [NewReq(q.kind, q.user, q.case, "done") EXCEPT
        !.resp = resp, !.err = q.err, !.pkey = q.pkey,
        !.failed = q.failed, !.low = q.low, !.prior = q.prior,
        !.inv = q.inv, !.itype = q.itype, !.istatus = q.istatus,
        !.rid = q.rid, !.tl = q.tl,
        !.verdict = q.verdict, !.comment = q.comment, !.token = q.token,
        !.body = q.body, !.was = q.was]
\* an exception inside the try block: control goes to the catch clause,
\* whose first statement is `await db.run("ROLLBACK")`
Throw(q, e) == [q EXCEPT !.pc = "o_catch", !.err = e]

Setup(cats) ==
    /\ rev \in Revs
    /\ uniqueClaims \in BOOLEAN
    /\ now = 0
    /\ \E cat \in cats :
          db = [cases |-> cat.cases, items |-> Items, case_items |-> cat.case_items,
                case_claims |-> << >>, spins |-> << >>, inventory |-> << >>,
                xp |-> [u \in Users |-> 0],
                trade_link |-> [u \in Users |-> FALSE],
                requests |-> << >>, sessions |-> {}]
    /\ inTx = FALSE
    /\ snap = db
    /\ reqs = << >>
    /\ calc = NoCalc
    /\ svc = NoSvc
    /\ draw = NoDraw
    /\ foreignKeys = TRUE

Init == Setup({CoreCatalog}) /\ limit = MaxReq

\* a day passes in Riga
Tick ==
    /\ now < MaxDay
    /\ now' = now + 1
    /\ UNCHANGED << side, limit, rev, uniqueClaims, db, inTx, snap, reqs >>

\* the opens of case c by user u that have been answered with a prize
Granted(u, c) ==
    {i \in DOMAIN reqs : /\ reqs[i].kind = "open" /\ reqs[i].user = u
                         /\ reqs[i].case = c /\ reqs[i].resp = "OK"}

\* POST /api/cases/open arrives with a valid session of user u; prior notes
\* which opens of the same case by the same user had then been granted
StartOpen(u, c) ==
    /\ Len(reqs) < limit
    /\ reqs' = Append(reqs, [NewReq("open", u, c, "o_case") EXCEPT !.prior = Granted(u, c)])
    /\ UNCHANGED << side, limit, rev, uniqueClaims, now, db, inTx, snap >>

\* a player who has been granted a prize from case c asks for it again
StartAgain(u, c) ==
    /\ Len(reqs) < MaxDeepReq
    /\ Granted(u, c) # {}
    /\ reqs' = Append(reqs, [NewReq("open", u, c, "o_case") EXCEPT !.prior = Granted(u, c)])
    /\ UNCHANGED << side, limit, rev, uniqueClaims, now, db, inTx, snap >>

\* SELECT * FROM cases WHERE id = ?; 404 when there is no row
OpenCase(r) ==
    /\ At(r, "o_case")
    /\ LET q == reqs[r] IN
       reqs' = [reqs EXCEPT ![r] =
          IF q.case \notin DOMAIN db.cases THEN Reply(q, "CASE_NOT_FOUND")
          ELSE [q EXCEPT !.pc = "o_claimed",
                         !.ctype = db.cases[q.case].type,
                         !.thr = db.cases[q.case].threshold_eur,
                         !.pkey = PeriodKey(db.cases[q.case].type, now)]]
    /\ UNCHANGED << side, limit, rev, uniqueClaims, now, db, inTx, snap >>

\* SELECT id FROM case_claims WHERE user_uuid=? AND case_id=? AND period_key=?
OpenClaimed(r) ==
    /\ At(r, "o_claimed")
    /\ LET q == reqs[r] IN
       reqs' = [reqs EXCEPT ![r] =
          IF HasClaim(db, q.user, q.case, q.pkey) THEN Reply(q, "ALREADY_OPENED")
          ELSE [q EXCEPT !.pc = "o_progress"]]
    /\ UNCHANGED << side, limit, rev, uniqueClaims, now, db, inTx, snap >>

\* an open without the threshold test, as LogicService.openCase has none
NotEnoughSkipped(balance, thr) == FALSE

\* if (balance < caseMeta.threshold_eur) return 403
NotEnough(balance, thr) == balance < thr

\* calculateProgress / calculateProgressSafe, then the threshold test
OpenProgress(r) ==
    /\ At(r, "o_progress")
    /\ \E ans \in BillingAnswers :
       LET q == reqs[r]
           p == calculateProgress(rev, ans, now)
           balance == IF IsDaily(q.ctype) THEN p.daily ELSE p.monthly
           q1 == [q EXCEPT !.failed = ~ans.ok, !.low = (~p.threw /\ balance < q.thr)]
       IN reqs' = [reqs EXCEPT ![r] =
             IF p.threw THEN Throw(q1, "gateway")
             ELSE IF NotEnough(balance, q.thr) THEN Reply(q1, "NOT_ENOUGH_DEPOSIT")
             ELSE [q1 EXCEPT !.pc = "o_items"]]
    /\ UNCHANGED << side, limit, rev, uniqueClaims, now, db, inTx, snap >>

\* load the case's links and draw
OpenItems(r) ==
    /\ At(r, "o_items")
    /\ LET q == reqs[r]
           cis == CaseItems(rev, db, q.case)
       IN IF cis = << >> /\ rev \in {1, 2}
          THEN reqs' = [reqs EXCEPT ![r] = Reply(q, "CASE_EMPTY")]
          ELSE \E rnd2 \in Rolls(cis) :
               LET j == Selected(cis, rnd2) IN
               reqs' = [reqs EXCEPT ![r] =
                  IF j = 0 THEN [q EXCEPT !.pc = "o_begin", !.sel = "undefined"]
                  ELSE IF rev = 1 THEN [q EXCEPT !.pc = "o_prize", !.sel = cis[j].item_id]
                  ELSE [q EXCEPT !.pc = "o_begin", !.sel = cis[j].item_id,
                                 !.seltype = db.items[cis[j].item_id].type]]
    /\ UNCHANGED << side, limit, rev, uniqueClaims, now, db, inTx, snap >>

\* revision 1: SELECT * FROM items WHERE id = ? for the drawn link
OpenPrize(r) ==
    /\ At(r, "o_prize")
    /\ LET q == reqs[r] IN
       reqs' = [reqs EXCEPT ![r] =
          IF q.sel \notin DOMAIN db.items THEN Reply(q, "PRIZE_MISSING")
          ELSE [q EXCEPT !.pc = "o_begin", !.seltype = db.items[q.sel].type]]
    /\ UNCHANGED << side, limit, rev, uniqueClaims, now, db, inTx, snap >>

\* ---------------------------------------- statements on the connection
\* A statement outside a transaction is committed at once; inside one it is
\* undone by the next ROLLBACK, whichever request issues it.  snap is kept
\* equal to db while no transaction is open.
Write(d) ==
    /\ db' = d
    /\ snap' = IF inTx THEN snap ELSE d

\* xpEarned = caseMeta.threshold_eur || 5
XpDefault == 5
xpEarned(thr) == IF thr # 0 THEN thr ELSE XpDefault

\* BEGIN TRANSACTION: sqlite refuses a BEGIN inside an open transaction
OpenBegin(r) ==
    /\ At(r, "o_begin")
    /\ IF inTx
       THEN /\ reqs' = [reqs EXCEPT ![r] = Throw(@, "nested BEGIN")]
            /\ UNCHANGED << inTx, snap >>
       ELSE /\ reqs' = [reqs EXCEPT ![r].pc = "o_insclaim"]
            /\ inTx' = TRUE
            /\ snap' = db
    /\ UNCHANGED << side, limit, rev, uniqueClaims, now, db >>

\* INSERT INTO case_claims: rejected by the UNIQUE constraint, where the
\* table has one, when the key is already there
OpenInsertClaim(r) ==
    /\ At(r, "o_insclaim")
    /\ LET q == reqs[r] IN
       IF uniqueClaims /\ HasClaim(db, q.user, q.case, q.pkey)
       THEN /\ reqs' = [reqs EXCEPT ![r] = Throw(q, "SQLITE_CONSTRAINT")]
            /\ UNCHANGED << db, snap >>
       ELSE /\ reqs' = [reqs EXCEPT ![r].pc = IF rev = 2 THEN "o_xp" ELSE "o_spin"]
            /\ Write(Append1(db, "case_claims",
                  [user_uuid |-> q.user, case_id |-> q.case,
                   period_key |-> q.pkey, req |-> r]))
    /\ UNCHANGED << side, limit, rev, uniqueClaims, now, inTx >>

\* revision 2: INSERT INTO user_settings ... ON CONFLICT DO UPDATE SET xp = xp + ?
OpenXp(r) ==
    /\ At(r, "o_xp")
    /\ LET q == reqs[r] IN
       /\ reqs' = [reqs EXCEPT ![r].pc = "o_spin"]
       /\ Write([db EXCEPT !.xp[q.user] = @ + xpEarned(q.thr)])
    /\ UNCHANGED << side, limit, rev, uniqueClaims, now, inTx >>

\* INSERT INTO spins; in revision 3 an empty case leaves `selected`
\* undefined and reading selected.title throws a TypeError
OpenInsertSpin(r) ==
    /\ At(r, "o_spin")
    /\ LET q == reqs[r] IN
       IF q.sel = "undefined"
       THEN /\ reqs' = [reqs EXCEPT ![r] = Throw(q, "TypeError")]
            /\ UNCHANGED << db, snap >>
       ELSE /\ reqs' = [reqs EXCEPT ![r].pc = "o_inv"]
            /\ Write(Append1(db, "spins",
                  [user_uuid |-> q.user, case_id |-> q.case,
                   period_key |-> SpinKey(rev, q.pkey, now),
                   item_id |-> q.sel, req |-> r]))
    /\ UNCHANGED << side, limit, rev, uniqueClaims, now, inTx >>

\* INSERT INTO inventory; lastID is the new row's id
OpenInsertInventory(r) ==
    /\ At(r, "o_inv")
    /\ LET q == reqs[r] IN
       /\ reqs' = [reqs EXCEPT ![r] =
             [q EXCEPT !.pc = IF rev = 1 /\ q.seltype = "money" THEN "o_credit" ELSE "o_commit",
                       !.lastID = Len(db.inventory) + 1]]
       /\ Write(Append1(db, "inventory",
             [user_uuid |-> q.user, item_id |-> q.sel, type |-> q.seltype,
              status |-> GrantStatus(rev), req |-> r]))
    /\ UNCHANGED << side, limit, rev, uniqueClaims, now, inTx >>

\* revision 1, money prize: UPDATE inventory SET status = 'CREDITED' WHERE id = lastID
OpenCredit(r) ==
    /\ At(r, "o_credit")
    /\ LET q == reqs[r] IN
       /\ reqs' = [reqs EXCEPT ![r].pc = "o_commit"]
       /\ Write(IF q.lastID \in 1..Len(db.inventory)
                THEN [db EXCEPT !.inventory[q.lastID].status = "CREDITED"]
                ELSE db)
    /\ UNCHANGED << side, limit, rev, uniqueClaims, now, inTx >>

\* COMMIT, then the prize is sent; sqlite refuses a COMMIT with no
\* transaction open
OpenCommit(r) ==
    /\ At(r, "o_commit")
    /\ IF inTx
       THEN /\ reqs' = [reqs EXCEPT ![r] = Reply(@, "OK")]
            /\ inTx' = FALSE
            /\ snap' = db
       ELSE /\ reqs' = [reqs EXCEPT ![r] = Throw(@, "COMMIT without BEGIN")]
            /\ UNCHANGED << inTx, snap >>
    /\ UNCHANGED << side, limit, rev, uniqueClaims, now, db >>

\* catch (e) { await db.run("ROLLBACK"); res.status(500)... }: the ROLLBACK
\* undoes whatever transaction is open on the connection; with none open it
\* throws inside the catch clause and the request is never answered
OpenCatch(r) ==
    /\ At(r, "o_catch")
    /\ IF inTx
       THEN /\ reqs' = [reqs EXCEPT ![r] = Reply(@, "ERROR_500")]
            /\ db' = snap
            /\ inTx' = FALSE
       ELSE /\ reqs' = [reqs EXCEPT ![r] = Reply(@, "UNHANDLED")]
            /\ UNCHANGED << db, inTx >>
    /\ UNCHANGED << side, limit, rev, uniqueClaims, now, snap >>

\* ------------------------------------------------------ GET /api/profile
StartProfile(u) ==
    /\ Len(reqs) < limit
    /\ reqs' = Append(reqs, NewReq("profile", u, "none",
                                   IF rev = 3 THEN "p_cases" ELSE "p_progress"))
    /\ UNCHANGED << side, limit, rev, uniqueClaims, now, db, inTx, snap >>

\* the progress computation of the profile; revision 1 calls
\* calculateProgress outside any try block
ProfileProgress(r) ==
    /\ At(r, "p_progress")
    /\ \E ans \in BillingAnswers :
       LET q == reqs[r]
           p == calculateProgress(rev, ans, now)
           q1 == [q EXCEPT !.failed = ~ans.ok, !.daily = p.daily, !.monthly = p.monthly]
       IN reqs' = [reqs EXCEPT ![r] =
             IF p.threw THEN Reply(q1, "UNHANDLED")
             ELSE IF rev = 3 THEN [q1 EXCEPT !.pc = "p_claims", !.pt = now]
             ELSE IF rev = 1 THEN [q1 EXCEPT !.pc = "p_cases", !.pt = now]
             ELSE [q1 EXCEPT !.pc = "p_cases"]]
    /\ UNCHANGED << side, limit, rev, uniqueClaims, now, db, inTx, snap >>

\* SELECT * FROM cases [WHERE is_active = 1]
ProfileCases(r) ==
    /\ At(r, "p_cases")
    /\ LET q == reqs[r]
           ids == {c \in DOMAIN db.cases : rev # 1 \/ db.cases[c].is_active = 1}
           q1 == [q EXCEPT !.seen = [c \in ids |-> db.cases[c]]]
       IN reqs' = [reqs EXCEPT ![r] =
             IF rev = 3 THEN [q1 EXCEPT !.pc = "p_progress"]
             ELSE IF rev = 2 THEN [q1 EXCEPT !.pc = "p_claims", !.pt = now]
             ELSE [q1 EXCEPT !.pc = "p_claims"]]
    /\ UNCHANGED << side, limit, rev, uniqueClaims, now, db, inTx, snap >>

\* the availability flag of one case of the profile
Available(cfg, daily, monthly, claimed) ==
    (IF IsDaily(cfg.type) THEN daily ELSE monthly) >= cfg.threshold_eur /\ ~claimed

\* SELECT case_id FROM case_claims WHERE user_uuid = ? AND (period_key = ? OR
\* period_key = ?), then the answer
ProfileClaims(r) ==
    /\ At(r, "p_claims")
    /\ LET q == reqs[r]
           claimedIds == {db.case_claims[i].case_id : i \in
                            {j \in 1..Len(db.case_claims) :
                               /\ db.case_claims[j].user_uuid = q.user
                               /\ db.case_claims[j].period_key \in
                                    {getRigaDayKey(q.pt), getRigaMonthKey(q.pt)}}}
       IN reqs' = [reqs EXCEPT ![r] =
             [Reply(q, "OK") EXCEPT !.avail =
                {c \in DOMAIN q.seen :
                    Available(q.seen[c], q.daily, q.monthly, c \in claimedIds)}]]
    /\ UNCHANGED << side, limit, rev, uniqueClaims, now, db, inTx, snap >>

OpenStep(r) ==
    \/ OpenCase(r) \/ OpenClaimed(r) \/ OpenProgress(r) \/ OpenItems(r)
    \/ OpenPrize(r) \/ OpenBegin(r) \/ OpenInsertClaim(r) \/ OpenXp(r)
    \/ OpenInsertSpin(r) \/ OpenInsertInventory(r) \/ OpenCredit(r)
    \/ OpenCommit(r) \/ OpenCatch(r)

ProfileStep(r) == ProfileProgress(r) \/ ProfileCases(r) \/ ProfileClaims(r)

\* the case engine: concurrent opens on the one connection, within one day
Next ==
    \/ \E u \in Users, c \in CaseIds : StartOpen(u, c)
    \/ \E r \in 1..MaxReq : OpenStep(r)

Spec == Init /\ [][Next]_vars

\* one player opening the same case again and again, within one day
InitDeep == Setup({CoreCatalog}) /\ limit = MaxReq

NextDeep ==
    \/ StartOpen("u1", "c1")
    \/ StartAgain("u1", "c1")
    \/ \E r \in 1..MaxDeepReq : OpenStep(r)

SpecDeep == InitDeep /\ [][NextDeep]_vars

\* --------------------------------------------- inventory and redemption
\* the row with id i, whoever owns it
OwnRowAnyUser(d, i, u) == i \in 1..Len(d.inventory)

\* the inventory row with id i if it belongs to user u, as
\* SELECT * FROM inventory WHERE id = ? AND user_uuid = ?
OwnRow(d, i, u) == i \in 1..Len(d.inventory) /\ d.inventory[i].user_uuid = u

\* UPDATE inventory SET status = ? WHERE id = ?   (no row: nothing changes)
SetStatus(d, i, st) ==
    IF i \in 1..Len(d.inventory) THEN [d EXCEPT !.inventory[i].status = st] ELSE d

\* a rejected promise in a handler without try/catch: the request is never
\* answered and whatever transaction it had begun stays as it is
Die(q, e) == [Reply(q, "UNHANDLED") EXCEPT !.err = e]

\* POST /api/inventory/sell arrives with a valid session of user u
StartSell(u, i) ==
    /\ Len(reqs) < limit
    /\ reqs' = Append(reqs, [NewReq("sell", u, "none", "s_read") EXCEPT !.inv = i])
    /\ UNCHANGED << side, limit, rev, uniqueClaims, now, db, inTx, snap >>

\* what a handler keeps of the row it read
Seen(q, d) ==
    IF OwnRow(d, q.inv, q.user)
    THEN [q EXCEPT !.itype = d.inventory[q.inv].type, !.istatus = d.inventory[q.inv].status]
    ELSE q

\* the sell handler without its `item.type === "money"` test
SellReadAnyType(r) ==
    /\ At(r, "s_read")
    /\ LET q == Seen(reqs[r], db) IN
       reqs' = [reqs EXCEPT ![r] =
             IF rev = 1 /\ q.istatus = "none" THEN Reply(q, "ITEM_NOT_FOUND")
             ELSE IF q.istatus # GrantStatus(rev) THEN Reply(q, "NOT_AVAILABLE")
             ELSE [q EXCEPT !.pc = "s_update"]]
    /\ UNCHANGED << side, limit, rev, uniqueClaims, now, db, inTx, snap >>

\* the row is read and tested: existence, status, type
SellRead(r) ==
    /\ At(r, "s_read")
    /\ LET q == Seen(reqs[r], db) IN
       reqs' = [reqs EXCEPT ![r] =
             IF rev = 1 /\ q.istatus = "none" THEN Reply(q, "ITEM_NOT_FOUND")
             ELSE IF q.istatus # GrantStatus(rev) THEN Reply(q, "NOT_AVAILABLE")
             ELSE IF q.itype = "money" THEN Reply(q, "CANNOT_SELL_MONEY")
             ELSE [q EXCEPT !.pc = "s_update"]]
    /\ UNCHANGED << side, limit, rev, uniqueClaims, now, db, inTx, snap >>

\* UPDATE inventory SET status = 'SOLD' / 'sold'
SellUpdate(r) ==
    /\ At(r, "s_update")
    /\ Write(SetStatus(db, reqs[r].inv, IF rev = 1 THEN "SOLD" ELSE "sold"))
    /\ reqs' = [reqs EXCEPT ![r] = Reply(@, "OK")]
    /\ UNCHANGED << side, limit, rev, uniqueClaims, now, inTx >>

\* POST /api/inventory/claim (revisions 2 and 3); requireSession has merged
\* the user's user_settings row into the session
StartClaim(u, i) ==
    /\ Len(reqs) < limit
    /\ rev \in {2, 3}
    /\ reqs' = Append(reqs, [NewReq("claim", u, "none", "k_read") EXCEPT
                                !.inv = i, !.tl = db.trade_link[u]])
    /\ UNCHANGED << side, limit, rev, uniqueClaims, now, db, inTx, snap >>

ClaimRead(r) ==
    /\ At(r, "k_read")
    /\ LET q == Seen(reqs[r], db) IN
       reqs' = [reqs EXCEPT ![r] =
             IF q.istatus # "available" THEN Reply(q, "NOT_AVAILABLE")
             ELSE [q EXCEPT !.pc = "k_begin"]]
    /\ UNCHANGED << side, limit, rev, uniqueClaims, now, db, inTx, snap >>

\* BEGIN TRANSACTION, then the branch on the type of the row read
ClaimBegin(r) ==
    /\ At(r, "k_begin")
    /\ IF inTx
       THEN /\ reqs' = [reqs EXCEPT ![r] = Die(@, "nested BEGIN")]
            /\ UNCHANGED << inTx, snap >>
       ELSE /\ reqs' = [reqs EXCEPT ![r].pc =
                          IF reqs[r].itype = "money" THEN "k_recv"
                          ELSE IF reqs[r].itype = "skin" /\ ~reqs[r].tl THEN "k_rollback"
                          ELSE "k_proc"]
            /\ inTx' = TRUE
            /\ snap' = db
    /\ UNCHANGED << side, limit, rev, uniqueClaims, now, db >>

\* money: UPDATE inventory SET status = 'received'
ClaimReceive(r) ==
    /\ At(r, "k_recv")
    /\ Write(SetStatus(db, reqs[r].inv, "received"))
    /\ reqs' = [reqs EXCEPT ![r].pc = "k_commit"]
    /\ UNCHANGED << side, limit, rev, uniqueClaims, now, inTx >>

\* skin without trade link: ROLLBACK and 400 TRADE_LINK_MISSING
ClaimRollback(r) ==
    /\ At(r, "k_rollback")
    /\ IF inTx
       THEN /\ reqs' = [reqs EXCEPT ![r] = Reply(@, "TRADE_LINK_MISSING")]
            /\ db' = snap
            /\ inTx' = FALSE
       ELSE /\ reqs' = [reqs EXCEPT ![r] = Die(@, "ROLLBACK without BEGIN")]
            /\ UNCHANGED << db, inTx >>
    /\ UNCHANGED << side, limit, rev, uniqueClaims, now, snap >>

\* UPDATE inventory SET status = 'processing'
ClaimProcessing(r) ==
    /\ At(r, "k_proc")
    /\ Write(SetStatus(db, reqs[r].inv, "processing"))
    /\ reqs' = [reqs EXCEPT ![r].pc = "k_insreq"]
    /\ UNCHANGED << side, limit, rev, uniqueClaims, now, inTx >>

\* INSERT INTO requests (...) VALUES (..., 'pending', ...)
ClaimInsertRequest(r) ==
    /\ At(r, "k_insreq")
    /\ LET q == reqs[r] IN
       Write(Append1(db, "requests",
                     [id |-> r, user_uuid |-> q.user, inventory_id |-> q.inv,
                      type |-> q.itype, status |-> "pending",
                      admin_comment |-> "none", req |-> r]))
    /\ reqs' = [reqs EXCEPT ![r].pc = "k_commit"]
    /\ UNCHANGED << side, limit, rev, uniqueClaims, now, inTx >>

ClaimCommit(r) ==
    /\ At(r, "k_commit")
    /\ IF inTx
       THEN /\ reqs' = [reqs EXCEPT ![r] = Reply(@, "OK")]
            /\ inTx' = FALSE
            /\ snap' = db
       ELSE /\ reqs' = [reqs EXCEPT ![r] = Die(@, "COMMIT without BEGIN")]
            /\ UNCHANGED << inTx, snap >>
    /\ UNCHANGED << side, limit, rev, uniqueClaims, now, db >>

\* POST /api/admin/requests/:id/approve | deny | return (revisions 2, 3),
\* behind requireSession only: any session's user u may call them
Verdicts == {"approve", "deny", "return"}
RequestStatus(v) ==
    IF v = "approve" THEN "approved" ELSE IF v = "deny" THEN "denied" ELSE "returned"
InventoryStatus(v) == IF v = "approve" THEN "received" ELSE "available"

\* the status of the inventory entry of request id ("none": no such request)
LinkedStatus(d, id) ==
    LET hit == {i \in DOMAIN d.requests : d.requests[i].id = id} IN
    IF hit = {} THEN "none"
    ELSE LET i == d.requests[CHOOSE j \in hit : TRUE].inventory_id IN
         IF i \in 1..Len(d.inventory) THEN d.inventory[i].status ELSE "none"

\* istatus notes, for the properties only, the state of the linked
\* inventory entry when the operator's request arrives
StartDecide(u, v, id, comment) ==
    /\ Len(reqs) < limit
    /\ rev \in {2, 3}
    /\ reqs' = Append(reqs, [NewReq("decide", u, "none", "a_begin") EXCEPT
                                !.verdict = v, !.rid = id,
                                !.istatus = LinkedStatus(db, id),
                                !.comment = IF v = "deny" THEN comment ELSE "none"])
    /\ UNCHANGED << side, limit, rev, uniqueClaims, now, db, inTx, snap >>

DecideBegin(r) ==
    /\ At(r, "a_begin")
    /\ IF inTx
       THEN /\ reqs' = [reqs EXCEPT ![r] = Die(@, "nested BEGIN")]
            /\ UNCHANGED << inTx, snap >>
       ELSE /\ reqs' = [reqs EXCEPT ![r].pc = "a_updreq"]
            /\ inTx' = TRUE
            /\ snap' = db
    /\ UNCHANGED << side, limit, rev, uniqueClaims, now, db >>

\* UPDATE requests SET status = ?, [admin_comment = ?] WHERE id = ?
DecideUpdateRequest(r) ==
    /\ At(r, "a_updreq")
    /\ LET q == reqs[r]
           Upd(row) == IF row.id # q.rid THEN row
                       ELSE IF q.verdict = "deny"
                       THEN [row EXCEPT !.status = "denied", !.admin_comment = q.comment]
                       ELSE [row EXCEPT !.status = RequestStatus(q.verdict)]
       IN Write([db EXCEPT !.requests = [i \in DOMAIN db.requests |-> Upd(db.requests[i])]])
    /\ reqs' = [reqs EXCEPT ![r].pc = "a_read"]
    /\ UNCHANGED << side, limit, rev, uniqueClaims, now, inTx >>

\* SELECT inventory_id FROM requests WHERE id = ?; reqData.inventory_id
\* throws a TypeError when there is no such request
DecideRead(r) ==
    /\ At(r, "a_read")
    /\ LET q == reqs[r]
           hit == {i \in DOMAIN db.requests : db.requests[i].id = q.rid}
       IN reqs' = [reqs EXCEPT ![r] =
             IF hit = {} THEN Die(q, "TypeError")
             ELSE [q EXCEPT !.pc = "a_updinv",
                            !.inv = db.requests[CHOOSE i \in hit : TRUE].inventory_id]]
    /\ UNCHANGED << side, limit, rev, uniqueClaims, now, db, inTx, snap >>

\* UPDATE inventory SET status = 'received' | 'available' WHERE id = ?
DecideUpdateInventory(r) ==
    /\ At(r, "a_updinv")
    /\ Write(SetStatus(db, reqs[r].inv, InventoryStatus(reqs[r].verdict)))
    /\ reqs' = [reqs EXCEPT ![r].pc = "a_commit"]
    /\ UNCHANGED << side, limit, rev, uniqueClaims, now, inTx >>

DecideCommit(r) ==
    /\ At(r, "a_commit")
    /\ IF inTx
       THEN /\ reqs' = [reqs EXCEPT ![r] = Reply(@, "OK")]
            /\ inTx' = FALSE
            /\ snap' = db
       ELSE /\ reqs' = [reqs EXCEPT ![r] = Die(@, "COMMIT without BEGIN")]
            /\ UNCHANGED << inTx, snap >>
    /\ UNCHANGED << side, limit, rev, uniqueClaims, now, db >>

SellStep(r) == SellRead(r) \/ SellUpdate(r)
ClaimStep(r) ==
    \/ ClaimRead(r) \/ ClaimBegin(r) \/ ClaimReceive(r) \/ ClaimRollback(r)
    \/ ClaimProcessing(r) \/ ClaimInsertRequest(r) \/ ClaimCommit(r)
DecideStep(r) ==
    \/ DecideBegin(r) \/ DecideUpdateRequest(r) \/ DecideRead(r)
    \/ DecideUpdateInventory(r) \/ DecideCommit(r)

\* The inventory as earlier opens and claims have left it: u1 holds a skin,
\* a money prize and a physical prize; u2 holds a skin whose redemption
\* request 0 is pending (revision 1 has no requests: that skin was sold).
InvRow(type, item, u, st) ==
    [type |-> type, item_id |-> item, user_uuid |-> u, req |-> 0, status |-> st]
SeedInventory(r) ==
    << InvRow("skin", "i1", "u1", GrantStatus(r)),
       InvRow("money", "i2", "u1", IF r = 1 THEN "CREDITED" ELSE "available"),
       InvRow("physical", "i3", "u1", GrantStatus(r)),
       InvRow("skin", "i1", "u2", IF r = 1 THEN "SOLD" ELSE "processing") >>
SeedRequests(r) ==
    IF r = 1 THEN << >>
    ELSE << [id |-> 0, user_uuid |-> "u2", inventory_id |-> 4, type |-> "skin",
             status |-> "pending", admin_comment |-> "none", req |-> 0] >>

Comments == {"not eligible", ""}
NoSuchId == 9
RequestIds(d) == {d.requests[i].id : i \in DOMAIN d.requests} \cup {NoSuchId}

InitInv ==
    /\ rev \in Revs
    /\ uniqueClaims = FALSE
    /\ now = 0
    /\ \E link \in BOOLEAN :
          db = [cases |-> CoreCatalog.cases, items |-> Items,
                case_items |-> CoreCatalog.case_items,
                case_claims |-> << >>, spins |-> << >>,
                inventory |-> SeedInventory(rev),
                xp |-> [u \in Users |-> 0],
                trade_link |-> [u \in Users |-> IF u = "u1" THEN link ELSE TRUE],
                requests |-> SeedRequests(rev), sessions |-> {}]
    /\ inTx = FALSE
    /\ snap = db
    /\ reqs = << >>
    /\ calc = NoCalc
    /\ svc = NoSvc
    /\ draw = NoDraw
    /\ foreignKeys = TRUE
    /\ limit = MaxInvReq

NextInv ==
    \/ \E u \in Users, i \in 1..Len(db.inventory) : StartSell(u, i)
    \/ \E u \in Users, i \in 1..Len(db.inventory) : StartClaim(u, i)
    \/ \E u \in Users, v \in Verdicts, id \in RequestIds(db), c \in Comments :
          StartDecide(u, v, id, c)
    \/ StartOpen("u2", "c1")
    \/ \E r \in 1..MaxInvReq : SellStep(r) \/ ClaimStep(r) \/ DecideStep(r) \/ OpenStep(r)

SpecInv == InitInv /\ [][NextInv]_vars

\* The operator's desk: redemption decisions while users open cases
MaxDeskReq == 3
InitDesk ==
    /\ rev \in Revs
    /\ uniqueClaims = FALSE
    /\ now = 0
    /\ db = [cases |-> CoreCatalog.cases, items |-> Items,
             case_items |-> CoreCatalog.case_items,
             case_claims |-> << >>, spins |-> << >>,
             inventory |-> SeedInventory(rev),
             xp |-> [u \in Users |-> 0],
             trade_link |-> [u \in Users |-> TRUE],
             requests |-> SeedRequests(rev), sessions |-> {}]
    /\ inTx = FALSE
    /\ snap = db
    /\ reqs = << >>
    /\ calc = NoCalc
    /\ svc = NoSvc
    /\ draw = NoDraw
    /\ foreignKeys = TRUE
    /\ limit = MaxDeskReq

NextDesk ==
    \/ \E v \in Verdicts, id \in RequestIds(db), c \in Comments : StartDecide("u1", v, id, c)
    \/ StartOpen("u2", "c1")
    \/ \E r \in 1..MaxDeskReq : DecideStep(r)
    \/ \E r \in 1..MaxDeskReq : OpenStep(r)

SpecDesk == InitDesk /\ [][NextDesk]_vars

\* ------------------------------------------------- sessions and login
\* Besides the three revisions of index.ts there is the build of
\* routes/auth.ts, middleware/requireSession.ts and SessionService, whose
\* Session Store is a JSON file.
Router == 4
Builds == Revs \cup {Router}

\* a session lasts one day: expires_at = now + 86400000 (in the file store
\* of SessionService the row has created_at only)
SessionDays == 1
Session(tok, u, t) == [token |-> tok, user_uuid |-> u, expires_at |-> t + SessionDays]
\* SELECT * FROM sessions WHERE token = ? / SessionService.getBySessionToken
SessionOf(d, tok) == {x \in d.sessions : x.token = tok}
\* the tokens that logins have handed to clients
Issued == {reqs[t].token : t \in {x \in DOMAIN reqs : reqs[x].kind = "login" /\ reqs[x].resp = "OK"}}

\* the answer of a login that failed: 401 "Invalid credentials" in index.ts,
\* 500 SMARTSHELL_AUTH_FAILED in routes/auth.ts
LoginFailure(b) == IF b = Router THEN "ERROR_500" ELSE "AUTH_FAILED"

\* POST /api/auth/session with the credentials of user u
StartLogin(u) ==
    /\ Len(reqs) < limit
    /\ reqs' = Append(reqs, NewReq("login", u, "none", "l_login"))
    /\ UNCHANGED << side, limit, rev, uniqueClaims, now, db, inTx, snap >>

\* gqlRequest clientLogin: the gateway answers with an access token or the
\* request throws (bad credentials, gateway unreachable)
LoginClientLogin(r) ==
    /\ At(r, "l_login")
    /\ \E ok \in BOOLEAN :
          reqs' = [reqs EXCEPT ![r] =
                     IF ok THEN [@ EXCEPT !.pc = "l_me"]
                     ELSE [Reply(@, LoginFailure(rev)) EXCEPT !.failed = TRUE]]
    /\ UNCHANGED << side, limit, rev, uniqueClaims, now, db, inTx, snap >>

\* gqlRequest clientMe; in routes/auth.ts SessionService.create follows at
\* once: it pushes a new row and removes none
LoginClientMe(r) ==
    /\ At(r, "l_me")
    /\ \E ok \in BOOLEAN :
          IF ~ok
          THEN /\ reqs' = [reqs EXCEPT ![r] =
                             [Reply(@, LoginFailure(rev)) EXCEPT !.failed = TRUE]]
               /\ UNCHANGED << db, snap >>
          ELSE IF rev = Router
          THEN /\ reqs' = [reqs EXCEPT ![r] = Reply([@ EXCEPT !.token = r], "OK")]
               /\ Write([db EXCEPT !.sessions = @ \cup {Session(r, reqs[r].user, now)}])
          ELSE /\ reqs' = [reqs EXCEPT ![r].pc = "l_delete"]
               /\ UNCHANGED << db, snap >>
    /\ UNCHANGED << side, limit, rev, uniqueClaims, now, inTx >>

\* DELETE FROM sessions WHERE user_uuid = ?
LoginDelete(r) ==
    /\ At(r, "l_delete")
    /\ Write([db EXCEPT !.sessions = {x \in @ : x.user_uuid # reqs[r].user}])
    /\ reqs' = [reqs EXCEPT ![r].pc = "l_insert"]
    /\ UNCHANGED << side, limit, rev, uniqueClaims, now, inTx >>

\* INSERT INTO sessions (token, user_uuid, ...); revisions 2 and 3 answer
\* now, revision 1 goes on to calculateProgress
LoginInsert(r) ==
    /\ At(r, "l_insert")
    /\ Write([db EXCEPT !.sessions = @ \cup {Session(r, reqs[r].user, now)}])
    /\ reqs' = [reqs EXCEPT ![r] =
                  IF rev = 1 THEN [@ EXCEPT !.pc = "l_progress", !.token = r]
                  ELSE Reply([@ EXCEPT !.token = r], "OK")]
    /\ UNCHANGED << side, limit, rev, uniqueClaims, now, inTx >>

\* revision 1: `await calculateProgress(uuid)` inside the login's try block;
\* it has no catch of its own, so a gateway failure lands in the login's
\* catch clause
LoginProgress(r) ==
    /\ At(r, "l_progress")
    /\ \E ok \in BOOLEAN :
          reqs' = [reqs EXCEPT ![r] =
                     IF ok THEN Reply(@, "OK")
                     ELSE [Reply(@, LoginFailure(rev)) EXCEPT !.failed = TRUE]]
    /\ UNCHANGED << side, limit, rev, uniqueClaims, now, db, inTx, snap >>

LoginStep(r) ==
    \/ LoginClientLogin(r) \/ LoginClientMe(r) \/ LoginDelete(r)
    \/ LoginInsert(r) \/ LoginProgress(r)

\* the first statement of the handler of a protected route
Enter(route) == IF route = "sell" THEN "s_read" ELSE "done"

\* a request to a protected route, here POST /api/inventory/sell, carrying
\* bearer token tok (NoToken: no Authorization header)
StartGuarded(route, tok, i) ==
    /\ Len(reqs) < limit
    /\ reqs' = Append(reqs, [NewReq(route, "none", "none", "m_get") EXCEPT
                                !.token = tok, !.inv = i])
    /\ UNCHANGED << side, limit, rev, uniqueClaims, now, db, inTx, snap >>

\* requireSession without its tests: every request is passed on
RequireNothing(r) ==
    /\ At(r, "m_get")
    /\ LET q == reqs[r]
           u == IF SessionOf(db, q.token) = {} THEN "u1"
                ELSE (CHOOSE x \in SessionOf(db, q.token) : TRUE).user_uuid
       IN reqs' = [reqs EXCEPT ![r] =
             IF rev = Router THEN Reply([q EXCEPT !.user = u], "NEXT")
             ELSE [q EXCEPT !.user = u, !.pc = IF rev = 1 THEN "m_touch" ELSE "m_settings"]]
    /\ UNCHANGED << side, limit, rev, uniqueClaims, now, db, inTx, snap >>

\* requireSession: the token test and the look-up in the Session Store; in
\* routes' build next() leads to handlers that are not part of the source
RequireSession(r) ==
    /\ At(r, "m_get")
    /\ LET q == reqs[r]
           found == SessionOf(db, q.token)
       IN reqs' = [reqs EXCEPT ![r] =
             IF q.token = NoToken THEN Reply(q, "NO_SESSION")
             ELSE IF found = {} THEN Reply(q, "INVALID_SESSION")
             ELSE LET u == (CHOOSE x \in found : TRUE).user_uuid IN
                  IF rev = Router THEN Reply([q EXCEPT !.user = u], "NEXT")
                  ELSE [q EXCEPT !.user = u,
                                 !.pc = IF rev = 1 THEN "m_touch" ELSE "m_settings"]]
    /\ UNCHANGED << side, limit, rev, uniqueClaims, now, db, inTx, snap >>

\* revision 1: UPDATE sessions SET last_seen_at = ? (a column nothing reads)
SessionTouch(r) ==
    /\ At(r, "m_touch")
    /\ reqs' = [reqs EXCEPT ![r].pc = Enter(reqs[r].kind)]
    /\ UNCHANGED << side, limit, rev, uniqueClaims, now, db, inTx, snap >>

\* revisions 2, 3: SELECT * FROM user_settings, merged into the session
SessionSettings(r) ==
    /\ At(r, "m_settings")
    /\ LET q == reqs[r] IN
       reqs' = [reqs EXCEPT ![r] = [q EXCEPT !.pc = Enter(q.kind),
                                             !.tl = db.trade_link[q.user]]]
    /\ UNCHANGED << side, limit, rev, uniqueClaims, now, db, inTx, snap >>

SessionStep(r) == RequireSession(r) \/ SessionTouch(r) \/ SessionSettings(r)

MaxAuthReq == 3
InitAuth ==
    /\ rev \in Builds
    /\ uniqueClaims = FALSE
    /\ now = 0
    /\ db = [cases |-> CoreCatalog.cases, items |-> Items,
             case_items |-> CoreCatalog.case_items,
             case_claims |-> << >>, spins |-> << >>,
             inventory |-> SeedInventory(rev),
             xp |-> [u \in Users |-> 0],
             trade_link |-> [u \in Users |-> TRUE],
             requests |-> << >>, sessions |-> {}]
    /\ inTx = FALSE
    /\ snap = db
    /\ reqs = << >>
    /\ calc = NoCalc
    /\ svc = NoSvc
    /\ draw = NoDraw
    /\ foreignKeys = TRUE
    /\ limit = MaxAuthReq

NextAuth ==
    \/ \E u \in Users : StartLogin(u)
    \/ \E tok \in {NoToken, ForgedToken} \cup Issued, i \in {1, 4} :
          StartGuarded("sell", tok, i)
    \/ \E r \in 1..MaxAuthReq : LoginStep(r)
    \/ \E r \in 1..MaxAuthReq : SessionStep(r)
    \/ \E r \in 1..MaxAuthReq : SellStep(r)

SpecAuth == InitAuth /\ [][NextAuth]_vars

\* sessions growing old: a login, then a request to a protected route days
\* later
MaxStaleReq == 2
MaxNights == 2

\* a day passes
Night ==
    /\ now < MaxNights
    /\ now' = now + 1
    /\ UNCHANGED << side, limit, rev, uniqueClaims, db, inTx, snap, reqs >>

InitStale ==
    /\ rev \in Builds
    /\ uniqueClaims = FALSE
    /\ now = 0
    /\ db = [cases |-> CoreCatalog.cases, items |-> Items,
             case_items |-> CoreCatalog.case_items,
             case_claims |-> << >>, spins |-> << >>,
             inventory |-> SeedInventory(rev),
             xp |-> [u \in Users |-> 0],
             trade_link |-> [u \in Users |-> TRUE],
             requests |-> << >>, sessions |-> {}]
    /\ inTx = FALSE
    /\ snap = db
    /\ reqs = << >>
    /\ calc = NoCalc
    /\ svc = NoSvc
    /\ draw = NoDraw
    /\ foreignKeys = TRUE
    /\ limit = MaxStaleReq

NextStale ==
    \/ Night
    \/ \E u \in Users : StartLogin(u)
    \/ \E tok \in {ForgedToken} \cup Issued : StartGuarded("sell", tok, 1)
    \/ \E r \in 1..MaxStaleReq : LoginStep(r)
    \/ \E r \in 1..MaxStaleReq : SessionStep(r)
    \/ \E r \in 1..MaxStaleReq : SellStep(r)

SpecStale == InitStale /\ [][NextStale]_vars

\* ------------------------------------------------------ catalog writes
\* Revision 1 mounts its admin routes with no middleware (the caller is
\* "none"); revisions 2 and 3 mount them behind requireSession, which lets
\* every session's user through: the sessions table has no role.
Callers(b) == IF b = 1 THEN {"none"} ELSE Users

\* the definition and the links of case c in database d
CaseState(d, c) ==
    [def |-> IF c \in DOMAIN d.cases THEN d.cases[c] ELSE NoCase,
     links |-> SelectSeq(d.case_items, LAMBDA l : l.case_id = c)]

\* rows of case_items that survive DELETE ... WHERE case_id = c / item_id = i
Unlinked(d, field, x) == SelectSeq(d.case_items, LAMBDA l : l[field] # x)

\* catch (e) { await db.run("ROLLBACK"); res.status(500)... } of
\* saveCaseHandler and of the item delete of revision 2
AdminCatch(r) ==
    /\ At(r, "v_catch")
    /\ IF inTx
       THEN /\ reqs' = [reqs EXCEPT ![r] = Reply(@, "ERROR_500")]
            /\ db' = snap
            /\ inTx' = FALSE
       ELSE /\ reqs' = [reqs EXCEPT ![r] = Reply(@, "UNHANDLED")]
            /\ UNCHANGED << db, inTx >>
    /\ UNCHANGED << side, limit, rev, uniqueClaims, now, snap >>

Fail(q, e) == [q EXCEPT !.pc = "v_catch", !.err = e]

\* POST /api/admin/items: one INSERT ... ON CONFLICT(id) DO UPDATE
StartUpsertItem(u, i, type) ==
    /\ Len(reqs) < limit
    /\ u \in Callers(rev)
    /\ reqs' = Append(reqs, [NewReq("upsertItem", u, "none", "i_upsert") EXCEPT
                                !.sel = i, !.seltype = type])
    /\ UNCHANGED << side, limit, rev, uniqueClaims, now, db, inTx, snap >>

ItemUpsert(r) ==
    /\ At(r, "i_upsert")
    /\ LET q == reqs[r] IN
       Write([db EXCEPT !.items = [x \in DOMAIN @ \cup {q.sel} |->
                                     IF x = q.sel THEN [type |-> q.seltype] ELSE @[x]]])
    /\ reqs' = [reqs EXCEPT ![r] = Reply(@, "OK")]
    /\ UNCHANGED << side, limit, rev, uniqueClaims, now, inTx >>

\* DELETE /api/admin/items/:id (revisions 2, 3)
StartDeleteItem(u, i) ==
    /\ Len(reqs) < limit
    /\ rev \in {2, 3}
    /\ reqs' = Append(reqs, [NewReq("deleteItem", u, "none",
                                    IF rev = 2 THEN "d_begin" ELSE "d_item") EXCEPT
                                !.sel = i])
    /\ UNCHANGED << side, limit, rev, uniqueClaims, now, db, inTx, snap >>

\* revision 2: BEGIN TRANSACTION
DeleteItemBegin(r) ==
    /\ At(r, "d_begin")
    /\ IF inTx
       THEN /\ reqs' = [reqs EXCEPT ![r] = Fail(@, "nested BEGIN")]
            /\ UNCHANGED << inTx, snap >>
       ELSE /\ reqs' = [reqs EXCEPT ![r].pc = "d_links"]
            /\ inTx' = TRUE
            /\ snap' = db
    /\ UNCHANGED << side, limit, rev, uniqueClaims, now, db >>

\* revision 2: DELETE FROM case_items WHERE item_id = ?
DeleteItemLinks(r) ==
    /\ At(r, "d_links")
    /\ Write([db EXCEPT !.case_items = Unlinked(db, "item_id", reqs[r].sel)])
    /\ reqs' = [reqs EXCEPT ![r].pc = "d_item"]
    /\ UNCHANGED << side, limit, rev, uniqueClaims, now, inTx >>

\* DELETE FROM items WHERE id = ?; where the table has its foreign keys the
\* links go with the item
\* (FOREIGN KEY(item_id) REFERENCES items(id) ON DELETE CASCADE)
DeleteItemRow(r) ==
    /\ At(r, "d_item")
    /\ LET i == reqs[r].sel IN
       Write([db EXCEPT !.items = [x \in DOMAIN @ \ {i} |-> @[x]],
                        !.case_items = IF foreignKeys THEN Unlinked(db, "item_id", i)
                                                      ELSE @])
    /\ reqs' = [reqs EXCEPT ![r] =
                  IF rev = 2 THEN [@ EXCEPT !.pc = "d_commit"] ELSE Reply(@, "OK")]
    /\ UNCHANGED << side, limit, rev, uniqueClaims, now, inTx >>

\* revision 2: COMMIT
DeleteItemCommit(r) ==
    /\ At(r, "d_commit")
    /\ IF inTx
       THEN /\ reqs' = [reqs EXCEPT ![r] = Reply(@, "OK")]
            /\ inTx' = FALSE
            /\ snap' = db
       ELSE /\ reqs' = [reqs EXCEPT ![r] = Fail(@, "COMMIT without BEGIN")]
            /\ UNCHANGED << inTx, snap >>
    /\ UNCHANGED << side, limit, rev, uniqueClaims, now, db >>

\* POST /api/admin/cases, PUT /api/admin/cases/:id: saveCaseHandler with the
\* definition def and the items links in req.body
StartSaveCase(u, c, def, links) ==
    /\ Len(reqs) < limit
    /\ u \in Callers(rev)
    /\ reqs' = Append(reqs, [NewReq("saveCase", u, c, "v_begin") EXCEPT
                                !.body = [def |-> def, links |-> links]])
    /\ UNCHANGED << side, limit, rev, uniqueClaims, now, db, inTx, snap >>

SaveBegin(r) ==
    /\ At(r, "v_begin")
    /\ IF inTx
       THEN /\ reqs' = [reqs EXCEPT ![r] =
                          Fail([@ EXCEPT !.was = CaseState(snap, reqs[r].case)], "nested BEGIN")]
            /\ UNCHANGED << inTx, snap >>
       ELSE /\ reqs' = [reqs EXCEPT ![r] =
                          [@ EXCEPT !.pc = "v_case", !.was = CaseState(db, reqs[r].case)]]
            /\ inTx' = TRUE
            /\ snap' = db
    /\ UNCHANGED << side, limit, rev, uniqueClaims, now, db >>

\* INSERT INTO cases ... ON CONFLICT(id) DO UPDATE SET ...
SaveCaseRow(r) ==
    /\ At(r, "v_case")
    /\ LET q == reqs[r] IN
       Write([db EXCEPT !.cases = [x \in DOMAIN @ \cup {q.case} |->
                                     IF x = q.case THEN q.body.def ELSE @[x]]])
    /\ reqs' = [reqs EXCEPT ![r].pc = "v_unlink"]
    /\ UNCHANGED << side, limit, rev, uniqueClaims, now, inTx >>

\* DELETE FROM case_items WHERE case_id = ?, then the loop over the items
SaveUnlink(r) ==
    /\ At(r, "v_unlink")
    /\ Write([db EXCEPT !.case_items = Unlinked(db, "case_id", reqs[r].case)])
    /\ LET q == reqs[r] IN
       reqs' = [reqs EXCEPT ![r] =
                  [q EXCEPT !.left = q.body.links,
                            !.pc = IF q.body.links = << >> THEN "v_commit" ELSE "v_link"]]
    /\ UNCHANGED << side, limit, rev, uniqueClaims, now, inTx >>

\* INSERT INTO case_items (case_id, item_id, weight, rarity): refused by the
\* foreign keys, where the table has them, when the case or the item does
\* not exist
SaveLink(r) ==
    /\ At(r, "v_link")
    /\ LET q == reqs[r]
           l == Head(q.left)
       IN IF foreignKeys /\ (q.case \notin DOMAIN db.cases \/ l.item_id \notin DOMAIN db.items)
          THEN /\ reqs' = [reqs EXCEPT ![r] = Fail(q, "SQLITE_CONSTRAINT")]
               /\ UNCHANGED << db, snap >>
          ELSE /\ Write(Append1(db, "case_items", l))
               /\ reqs' = [reqs EXCEPT ![r] =
                             [q EXCEPT !.left = Tail(q.left),
                                       !.pc = IF Tail(q.left) = << >> THEN "v_commit"
                                                                      ELSE "v_link"]]
    /\ UNCHANGED << side, limit, rev, uniqueClaims, now, inTx >>

SaveCommit(r) ==
    /\ At(r, "v_commit")
    /\ IF inTx
       THEN /\ reqs' = [reqs EXCEPT ![r] = Reply(@, "OK")]
            /\ inTx' = FALSE
            /\ snap' = db
       ELSE /\ reqs' = [reqs EXCEPT ![r] = Fail(@, "COMMIT without BEGIN")]
            /\ UNCHANGED << inTx, snap >>
    /\ UNCHANGED << side, limit, rev, uniqueClaims, now, db >>

\* DELETE /api/admin/cases/:id (revisions 2, 3)
StartDeleteCase(u, c) ==
    /\ Len(reqs) < limit
    /\ rev \in {2, 3}
    /\ reqs' = Append(reqs, NewReq("deleteCase", u, c, "e_case"))
    /\ UNCHANGED << side, limit, rev, uniqueClaims, now, db, inTx, snap >>

\* DELETE FROM cases WHERE id = ?; where the table has its foreign keys the
\* links go with the case
\* (FOREIGN KEY(case_id) REFERENCES cases(id) ON DELETE CASCADE)
DeleteCaseRow(r) ==
    /\ At(r, "e_case")
    /\ LET c == reqs[r].case IN
       Write([db EXCEPT !.cases = [x \in DOMAIN @ \ {c} |-> @[x]],
                        !.case_items = IF foreignKeys THEN Unlinked(db, "case_id", c)
                                                      ELSE @])
    /\ reqs' = [reqs EXCEPT ![r] =
                  IF rev = 2 THEN [@ EXCEPT !.pc = "e_links"] ELSE Reply(@, "OK")]
    /\ UNCHANGED << side, limit, rev, uniqueClaims, now, inTx >>

\* revision 2: DELETE FROM case_items WHERE case_id = ?
DeleteCaseLinks(r) ==
    /\ At(r, "e_links")
    /\ Write([db EXCEPT !.case_items = Unlinked(db, "case_id", reqs[r].case)])
    /\ reqs' = [reqs EXCEPT ![r] = Reply(@, "OK")]
    /\ UNCHANGED << side, limit, rev, uniqueClaims, now, inTx >>

AdminStep(r) ==
    \/ ItemUpsert(r)
    \/ DeleteItemBegin(r) \/ DeleteItemLinks(r) \/ DeleteItemRow(r) \/ DeleteItemCommit(r)
    \/ SaveBegin(r) \/ SaveCaseRow(r) \/ SaveUnlink(r) \/ SaveLink(r) \/ SaveCommit(r)
    \/ DeleteCaseRow(r) \/ DeleteCaseLinks(r)
    \/ AdminCatch(r)

\* what the operator's panel sends: a changed definition of case c1 with no
\* item, with the physical prize alone, or with a skin and an item that does
\* not exist
SavedDef == Case("monthly", Threshold, 1)
SavedLinks ==
    { << >>,
      << Link("c1", "i3", 1) >>,
      << Link("c1", "i1", 2), Link("c1", "i9", 1) >> }

MaxAdminReq == 2
InitAdmin ==
    /\ rev \in Revs
    /\ uniqueClaims = FALSE
    /\ now = 0
    /\ db = [cases |-> CoreCatalog.cases, items |-> Items,
             case_items |-> CoreCatalog.case_items,
             case_claims |-> << >>, spins |-> << >>,
             inventory |-> SeedInventory(rev),
             xp |-> [u \in Users |-> 0],
             trade_link |-> [u \in Users |-> TRUE],
             requests |-> SeedRequests(rev), sessions |-> {}]
    /\ inTx = FALSE
    /\ snap = db
    /\ reqs = << >>
    /\ calc = NoCalc
    /\ svc = NoSvc
    /\ draw = NoDraw
    /\ foreignKeys \in BOOLEAN
    /\ limit = MaxAdminReq

NextAdmin ==
    \/ \E u \in Callers(rev) : StartUpsertItem(u, "i3", "money")
    \/ \E u \in Users : StartDeleteItem(u, "i1")
    \/ \E u \in Callers(rev), links \in SavedLinks : StartSaveCase(u, "c1", SavedDef, links)
    \/ \E u \in Users : StartDeleteCase(u, "c1")
    \/ \E v \in Verdicts : StartDecide("u1", v, 0, "")
    \/ StartOpen("u2", "c1")
    \/ \E r \in 1..MaxAdminReq : AdminStep(r)
    \/ \E r \in 1..MaxAdminReq : DecideStep(r)
    \/ \E r \in 1..MaxAdminReq : OpenStep(r)

SpecAdmin == InitAdmin /\ [][NextAdmin]_vars

\* ------------------------------------------------------ the weighted draw
\* case contents as saveCaseHandler stores them: any weight the operator
\* sent, in rowid order
MaxContents == 2
Weights == {-1, 0, 1, 2}
RECURSIVE Contents(_)
Contents(n) ==
    IF n = 0 THEN {<< >>}
    ELSE Contents(n - 1) \cup
         {Append(c, Link("c1", i, w)) : c \in {x \in Contents(n - 1) : Len(x) = n - 1},
                                        i \in {"i1", "i2"}, w \in Weights}

\* the roulette of the open handler on its own: rnd, then the walk and its
\* fallback
Draw ==
    /\ draw.pc = "ready"
    /\ \E rnd2 \in Rolls(draw.cis) :
          draw' = [draw EXCEPT !.pc = "drawn", !.rnd2 = rnd2,
                               !.sel = Selected(draw.cis, rnd2)]
    /\ UNCHANGED << rev, uniqueClaims, now, db, inTx, snap, reqs, limit, calc, foreignKeys, svc >>

InitDraw ==
    /\ rev = 1
    /\ uniqueClaims = FALSE
    /\ now = 0
    /\ db = [cases |-> CoreCatalog.cases, items |-> Items,
             case_items |-> CoreCatalog.case_items,
             case_claims |-> << >>, spins |-> << >>, inventory |-> << >>,
             xp |-> [u \in Users |-> 0],
             trade_link |-> [u \in Users |-> FALSE],
             requests |-> << >>, sessions |-> {}]
    /\ inTx = FALSE
    /\ snap = db
    /\ reqs = << >>
    /\ calc = NoCalc
    /\ svc = NoSvc
    /\ foreignKeys = TRUE
    /\ limit = 0
    /\ \E cis \in Contents(MaxContents) \ {<< >>} :
          draw = [NoDraw EXCEPT !.cis = cis, !.pc = "ready"]

NextDraw == Draw

SpecDraw == InitDraw /\ [][NextDraw]_vars

\* ---------------------------------------------------- getServiceToken
MaxCalls == 3

\* time passes
ClockTick ==
    /\ svc.clock + ClockStep <= MaxClock
    /\ svc' = [svc EXCEPT !.clock = @ + ClockStep]
    /\ UNCHANGED << rev, uniqueClaims, now, db, inTx, snap, reqs, limit, calc, foreignKeys, draw >>

\* a call of getServiceToken: `if (_serviceToken && Date.now() <
\* _serviceTokenExp) return _serviceToken`, else the login request is sent;
\* a call notes the time it was made and what the cache then held
GetServiceToken ==
    /\ Len(svc.calls) < MaxCalls
    /\ LET hit == svc.token # NoServiceToken /\ svc.clock < svc.exp
           call == [called |-> svc.clock, held |-> svc.token, at |-> svc.at,
                    ttl |-> svc.ttl, cached |-> hit,
                    pc |-> IF hit THEN "done" ELSE "login",
                    got |-> IF hit THEN svc.token ELSE NoServiceToken]
       IN svc' = [svc EXCEPT !.calls = Append(@, call)]
    /\ UNCHANGED << rev, uniqueClaims, now, db, inTx, snap, reqs, limit, calc, foreignKeys, draw >>

\* the gateway answers the login of call k: an access_token (modelled by k)
\* with its expires_in, stored with the expiry; or the request throws
ServiceLogin(k) ==
    /\ k \in DOMAIN svc.calls
    /\ svc.calls[k].pc = "login"
    /\ \/ \E ttl \in ExpiresIn :
             svc' = [svc EXCEPT !.token = k,
                                !.exp = serviceTokenExp(svc.clock, ttl),
                                !.at = svc.clock, !.ttl = ttl,
                                !.calls[k].pc = "done", !.calls[k].got = k]
       \/ svc' = [svc EXCEPT !.calls[k].pc = "failed"]
    /\ UNCHANGED << rev, uniqueClaims, now, db, inTx, snap, reqs, limit, calc, foreignKeys, draw >>

InitToken == Setup({CoreCatalog}) /\ limit = 0 /\ uniqueClaims = FALSE /\ rev = 1

NextToken ==
    \/ ClockTick
    \/ GetServiceToken
    \/ \E k \in 1..MaxCalls : ServiceLogin(k)

SpecToken == InitToken /\ [][NextToken]_vars

\* ------------------------------------------------ the progress function
\* the payment records the gateway may return
Formats == {"iso", "dot", "bad"}
Titles == {"popolnenie", "deposit", "other"}
Amounts == {0, Deposit}
Payments ==
    { PayWritten(f, t, b, ti, tag, ref, v) :
         f \in Formats, t \in 0..MaxDay, b \in {0, 1}, ti \in Titles,
         tag \in BOOLEAN, ref \in BOOLEAN, v \in Amounts }

\* the gateway's list grows by one record of a payment made so far
GatewayPayment(p) ==
    /\ ~calc.done
    /\ p.riga <= now
    /\ Len(calc.ps) < MaxPays
    /\ calc' = [calc EXCEPT !.ps = Append(@, p)]
    /\ UNCHANGED << limit, rev, uniqueClaims, now, db, inTx, snap, reqs, foreignKeys, svc, draw >>

\* calculateProgress(userUuid) on the fetched list
ComputeProgress ==
    /\ ~calc.done
    /\ LET p == calculateProgress(rev, [ok |-> TRUE, data |-> calc.ps], now) IN
       calc' = [calc EXCEPT !.done = TRUE, !.at = now,
                            !.daily = p.daily, !.monthly = p.monthly]
    /\ UNCHANGED << limit, rev, uniqueClaims, now, db, inTx, snap, reqs, foreignKeys, svc, draw >>

InitPay == Setup({CoreCatalog}) /\ limit = 0 /\ uniqueClaims = FALSE

NextPay ==
    \/ Tick
    \/ \E p \in Payments : GatewayPayment(p)
    \/ ComputeProgress

SpecPay == InitPay /\ [][NextPay]_vars

\* opens and profile reads on every catalog while days pass
InitWide == Setup(Catalogs) /\ limit = MaxWideReq

NextWide ==
    \/ Tick
    \/ \E u \in Users, c \in CaseIds : StartOpen(u, c)
    \/ \E u \in Users : StartProfile(u)
    \/ \E r \in 1..MaxWideReq : OpenStep(r) \/ ProfileStep(r)

SpecWide == InitWide /\ [][NextWide]_vars

\* =================================================================
\* Properties
\* =================================================================
Opens == {r \in DOMAIN reqs : reqs[r].kind = "open"}
Done(r) == reqs[r].pc = "done"
AllDone == \A r \in DOMAIN reqs : Done(r)

\* the rows of a table that request r wrote
RowsOf(table, r) == {i \in 1..Len(db[table]) : db[table][i].req = r}
NoRows(r) ==
    RowsOf("case_claims", r) = {} /\ RowsOf("spins", r) = {} /\ RowsOf("inventory", r) = {}

SameKey(a, b) ==
    /\ a.user_uuid = b.user_uuid /\ a.case_id = b.case_id /\ a.period_key = b.period_key

\* C1: case_claims never holds two rows with the same
\* (user_uuid, case_id, period_key).
C1_OneClaimPerKey ==
    \A i, j \in 1..Len(db.case_claims) :
        SameKey(db.case_claims[i], db.case_claims[j]) => i = j

\* the opens that passed the eligibility checks for the key of request r
Rivals(r) ==
    {x \in Opens : /\ reqs[x].user = reqs[r].user /\ reqs[x].case = reqs[r].case
                   /\ reqs[x].pkey = reqs[r].pkey /\ reqs[x].pkey # NoKey
                   /\ ~reqs[x].low /\ ~reqs[x].failed}

\* C2: once the concurrent opens of one (user, case, period_key) have all
\* been answered, exactly one of them got the prize and every other one got
\* ALREADY_OPENED.
C2_OneWinner ==
    AllDone =>
      \A r \in Opens :
         Rivals(r) # {} =>
            /\ Cardinality({x \in Rivals(r) : reqs[x].resp = "OK"}) = 1
            /\ \A x \in Rivals(r) : reqs[x].resp \in {"OK", "ALREADY_OPENED"}

\* C3: an open that arrives after an open of the same (user, case,
\* period_key) was answered with a prize writes no row and is answered
\* ALREADY_OPENED.
C3_NoSecondOpen ==
    \A r \in Opens : \A p \in reqs[r].prior :
       reqs[r].pkey = reqs[p].pkey =>
          /\ NoRows(r)
          /\ Done(r) => reqs[r].resp = "ALREADY_OPENED"


\* C4: whenever no transaction is open, each open has written either all of
\* its claim, spin and inventory rows or none of them, and an open that was
\* answered with a failure (or not at all) has left none.
C4_AllOrNothing ==
    ~inTx =>
      \A r \in Opens :
         /\ (RowsOf("case_claims", r) # {}) = (RowsOf("spins", r) # {})
         /\ (RowsOf("case_claims", r) # {}) = (RowsOf("inventory", r) # {})
         /\ (Done(r) /\ reqs[r].resp # "OK") => NoRows(r)

ConfiguredItems(c) ==
    {db.case_items[i].item_id :
        i \in {j \in 1..Len(db.case_items) : db.case_items[j].case_id = c}}

\* C6: an open answered with a prize has left exactly one claim row, one spin
\* row and one inventory row; the inventory row is in the granted state
\* (a money prize may already be credited) and holds an item of the case; the
\* claim's period_key is the Riga day for a daily case and the Riga month
\* for a monthly one.
C6_GrantWritten ==
    \A r \in Opens :
       (Done(r) /\ reqs[r].resp = "OK" /\ ~inTx) =>
          /\ Cardinality(RowsOf("case_claims", r)) = 1
          /\ Cardinality(RowsOf("spins", r)) = 1
          /\ Cardinality(RowsOf("inventory", r)) = 1
          /\ \A i \in RowsOf("inventory", r) :
                /\ \/ db.inventory[i].status \in {"available", "PENDING"}
                   \/ db.inventory[i].type = "money" /\ db.inventory[i].status = "CREDITED"
                /\ db.inventory[i].item_id \in ConfiguredItems(reqs[r].case)
          /\ \A i \in RowsOf("case_claims", r) :
                db.case_claims[i].period_key =
                   PeriodKey(db.cases[reqs[r].case].type, now)

\* C7: an open whose claim insert was rejected by the uniqueness constraint
\* is answered ALREADY_OPENED.
C7_ConstraintIsAlreadyOpened ==
    \A r \in Opens :
       (Done(r) /\ reqs[r].err = "SQLITE_CONSTRAINT") => reqs[r].resp = "ALREADY_OPENED"

\* C8: an open of a case that does not exist or has is_active = 0 writes no
\* row and is answered CASE_NOT_FOUND.
Inactive(c) == c \notin DOMAIN db.cases \/ db.cases[c].is_active = 0
C8_InactiveNotFound ==
    \A r \in Opens :
       Inactive(reqs[r].case) =>
          /\ NoRows(r)
          /\ Done(r) => reqs[r].resp = "CASE_NOT_FOUND"

\* C9: an open of a case whose link weights sum to zero selects no item,
\* writes no row and is not answered with a prize.
ZeroWeight(c) == CaseItems(1, db, c) # << >> /\ totalWeight(CaseItems(1, db, c)) = 0
C9_ZeroWeightRejected ==
    \A r \in Opens :
       ZeroWeight(reqs[r].case) =>
          /\ reqs[r].sel = "none"
          /\ NoRows(r)
          /\ reqs[r].resp # "OK"

\* C10: a request during which the billing gateway failed ends, for a profile
\* read, in an answer that reports no case available and, for an open, in
\* NOT_ENOUGH_DEPOSIT with no row written.
C10_FailClosed ==
    \A r \in DOMAIN reqs :
       (Done(r) /\ reqs[r].failed) =>
          IF reqs[r].kind = "profile"
          THEN reqs[r].resp = "OK" /\ reqs[r].avail = {}
          ELSE reqs[r].resp = "NOT_ENOUGH_DEPOSIT" /\ NoRows(r)

\* the sum of the amounts of the records of ps that Keep selects
RECURSIVE SumVal(_)
SumVal(ps) == IF ps = << >> THEN 0 ELSE Head(ps).val + SumVal(Tail(ps))
Total(ps, Keep(_)) == SumVal(SelectSeq(ps, Keep))

\* a deposit-classified payment that was not reversed
LiveDeposit(p) == ~p.is_refunded /\ isDeposit(rev, p) /\ p.created_at.fmt # "bad"
WrittenOnDay(p) == normalizeDatePart(p.created_at) = getRigaDayKey(calc.at)
WrittenInMonth(p) ==
    startsWith(normalizeDatePart(p.created_at), getRigaMonthKey(calc.at))

\* C11: the totals calculateProgress returns are the sums over the
\* deposit-classified payments that are not refunded; a refunded payment adds
\* nothing, whatever its amount, title or tag.
C11_RefundedAddNothing ==
    calc.done =>
       LET Day(p) == LiveDeposit(p) /\ WrittenOnDay(p)
           Month(p) == LiveDeposit(p) /\ WrittenInMonth(p)
       IN /\ calc.daily = Total(calc.ps, Day)
          /\ calc.monthly = Total(calc.ps, Month)

C11_Witness ==
    /\ calc.done /\ calc.daily > 0 /\ calc.daily < calc.monthly + Deposit
    /\ \E i \in 1..Len(calc.ps) :
          /\ calc.ps[i].is_refunded /\ calc.ps[i].val > 0
          /\ isDeposit(rev, calc.ps[i]) /\ WrittenOnDay(calc.ps[i])

\* C12: the daily total computed on a day is the sum over the live deposits
\* made on that Riga day (from its midnight to the next), in whatever zone
\* or accepted format created_at is written.
C12_RigaDayBoundary ==
    calc.done =>
       LET MadeToday(p) == LiveDeposit(p) /\ p.riga = calc.at
       IN calc.daily = Total(calc.ps, MadeToday)

Sells == {r \in DOMAIN reqs : reqs[r].kind = "sell"}
\* request r names a money entry of its own user
OwnMoney(r) ==
    OwnRow(db, reqs[r].inv, reqs[r].user) /\ db.inventory[reqs[r].inv].type = "money"

\* C13 as stated: a sell of a money entry is answered CANNOT_SELL_MONEY in
\* whatever status the entry is.
C13_AlwaysCannotSellMoney ==
    \A r \in Sells : (OwnMoney(r) /\ Done(r)) => reqs[r].resp = "CANNOT_SELL_MONEY"

\* C13, amended: a sell of a money entry never reaches the status update (so
\* it never succeeds and leaves the status as it is); it is answered
\* CANNOT_SELL_MONEY when the entry it read was in the available (PENDING)
\* state and NOT_AVAILABLE when it was in any other state.
C13_MoneyNeverSold ==
    \A r \in Sells :
       OwnMoney(r) =>
          /\ reqs[r].pc # "s_update"
          /\ Done(r) => reqs[r].resp =
                IF reqs[r].istatus = GrantStatus(rev) THEN "CANNOT_SELL_MONEY"
                                                      ELSE "NOT_AVAILABLE"

C13_Witness ==
    \E r, x \in Sells :
       /\ OwnMoney(r) /\ Done(r) /\ reqs[r].resp = "CANNOT_SELL_MONEY"
       /\ reqs[x].resp = "OK"

Claims == {r \in DOMAIN reqs : reqs[r].kind = "claim"}
\* claim r read an available entry of one of the given types for a user
\* whose session carries no trade link
Linkless(r, types) ==
    reqs[r].istatus = "available" /\ reqs[r].itype \in types /\ ~reqs[r].tl

\* C14: a claim on an available skin or physical entry by a user without a
\* trade link is answered TRADE_LINK_MISSING and mutates nothing: it never
\* reaches the update of the entry or the insert of a request.
C14_TradeLinkMissing ==
    \A r \in Claims :
       Linkless(r, {"skin", "physical"}) =>
          /\ reqs[r].pc \notin {"k_proc", "k_insreq", "k_commit"}
          /\ Done(r) => reqs[r].resp = "TRADE_LINK_MISSING"
          /\ \A i \in DOMAIN db.requests : db.requests[i].req # r

Denials == {r \in DOMAIN reqs : reqs[r].kind = "decide" /\ reqs[r].verdict = "deny"}
\* the requests row with the given id in database d
RequestRow(d, id) == d.requests[CHOOSE i \in DOMAIN d.requests : d.requests[i].id = id]
\* request r takes a step that writes the database
Writes(r) == reqs'[r] # reqs[r] /\ db' # db

\* C15: a deny of a request whose inventory entry is processing, once answered
\* with success, has set the request to denied with the given comment as
\* admin_comment and the inventory entry back to available; its writes change
\* no other request and no other inventory entry.
C15_DenyTakesEffect ==
    [][\A r \in Denials :
          reqs[r].istatus = "processing" =>
             /\ (reqs[r].resp = "none" /\ reqs'[r].resp = "OK") =>
                   /\ RequestRow(db', reqs[r].rid).status = "denied"
                   /\ RequestRow(db', reqs[r].rid).admin_comment = reqs[r].comment
                   /\ db'.inventory[reqs[r].inv].status = "available"
             /\ Writes(r) =>
                   /\ \A i \in DOMAIN db.requests :
                         db.requests[i].id # reqs[r].rid => db'.requests[i] = db.requests[i]
                   /\ \A i \in DOMAIN db.inventory :
                         i # RequestRow(db, reqs[r].rid).inventory_id
                            => db'.inventory[i] = db.inventory[i]]_vars

Logins == {r \in DOMAIN reqs : reqs[r].kind = "login"}
SessionsOfUser(u) == {x \in db.sessions : x.user_uuid = u}

\* C16: when requireSession examines a request that carries no bearer token
\* the answer is 401 NO_SESSION, and when the token is not in the Session
\* Store the answer is 401 INVALID_SESSION; the request ends there, so the
\* route's handler does not run, and nothing in the database changes.
C16_Unauthenticated ==
    [][\A r \in DOMAIN reqs :
          (reqs[r].pc = "m_get" /\ reqs'[r] # reqs[r]) =>
             /\ reqs[r].token = NoToken =>
                   reqs'[r].resp = "NO_SESSION" /\ reqs'[r].pc = "done" /\ db' = db
             /\ (reqs[r].token # NoToken /\ SessionOf(db, reqs[r].token) = {}) =>
                   reqs'[r].resp = "INVALID_SESSION" /\ reqs'[r].pc = "done" /\ db' = db]_vars

\* a token that a login issued and a later login replaced has been rejected
C16_Witness ==
    \E r \in DOMAIN reqs :
       reqs[r].resp = "INVALID_SESSION" /\ reqs[r].token \in Issued

\* C17: once every login has been answered, no user has more than one
\* session in the Session Store.
C17_OneSessionPerUser ==
    (\A r \in Logins : Done(r)) => \A u \in Users : Cardinality(SessionsOfUser(u)) <= 1

\* C18: a login that failed is answered 401 AUTH_FAILED and has put no
\* session into the Session Store.
C18_FailedLoginChangesNothing ==
    \A r \in Logins :
       reqs[r].failed =>
          /\ reqs[r].resp = "AUTH_FAILED"
          /\ SessionOf(db, r) = {}

\* Neither the sessions table nor any other table marks a user as an
\* operator: here u2 stands for the operator and u1 for an ordinary user;
\* "none" is the caller of a request that carries no session.
Operator == "u2"
OperatorKinds == {"upsertItem", "deleteItem", "saveCase", "deleteCase", "decide"}

\* C19: a catalog write or a redemption action requested with no session or
\* with the session of an ordinary user never changes items, cases,
\* case_items, requests or the inventory.
C19_OperatorOnly ==
    [][\A r \in DOMAIN reqs :
          (/\ reqs[r].kind \in OperatorKinds
           /\ reqs[r].user # Operator
           /\ reqs'[r] # reqs[r])
          => /\ db'.items = db.items
             /\ db'.cases = db.cases
             /\ db'.case_items = db.case_items
             /\ db'.requests = db.requests
             /\ db'.inventory = db.inventory]_vars

Saves == {r \in DOMAIN reqs : reqs[r].kind = "saveCase"}

\* no request other than r writes cases or case_items
OnlyWriter(r) ==
    \A x \in DOMAIN reqs \ {r} : reqs[x].kind \notin {"saveCase", "deleteCase", "deleteItem"}

\* C20: when saveCaseHandler answers success, the case has the definition
\* and exactly the links of the request; when it ends in failure, the case's
\* definition and links are those it had when the handler began. (Stated for
\* a save that no other catalog write runs beside.)
C20_UpsertCaseReplaces ==
    [][\A r \in Saves :
          (OnlyWriter(r) /\ reqs[r].resp = "none" /\ reqs'[r].resp # "none") =>
             CaseState(db', reqs[r].case) =
                IF reqs'[r].resp = "OK" THEN reqs[r].body ELSE reqs'[r].was]_vars

\* no request is being handled
Quiet == \A r \in DOMAIN reqs : Done(r)

\* C21: whenever no catalog write is under way, every case_items row
\* references an item that exists and a case that exists.
C21_LinksReferToRows ==
    Quiet => \A i \in 1..Len(db.case_items) :
                /\ db.case_items[i].item_id \in DOMAIN db.items
                /\ db.case_items[i].case_id \in DOMAIN db.cases

\* the margin of the token a call found in the cache had passed (or the
\* cache was empty) when the call was made
Stale(call) ==
    call.held = NoServiceToken \/ call.called >= call.at + (call.ttl - Margin)

\* C22: a call of getServiceToken returns the cached token only before the
\* time the token was received + (expires_in - 60) seconds; a call at or
\* after that instant sends a new login, whose token it returns and which
\* replaces the cached one.
C22_TokenMargin ==
    /\ \A k \in DOMAIN svc.calls :
          LET call == svc.calls[k] IN
          /\ call.cached <=> ~Stale(call)
          /\ call.cached => call.got = call.held
          /\ (~call.cached /\ call.pc = "done") => call.got = k
    /\ svc.token # NoServiceToken =>
          /\ svc.calls[svc.token].pc = "done"
          /\ svc.exp = svc.at + (svc.ttl - Margin)

\* one call was served from the cache after time had passed, a later one
\* found the margin passed and replaced the token
C22_Witness ==
    \E j, k \in DOMAIN svc.calls :
       /\ svc.calls[j].cached /\ svc.calls[j].called > svc.calls[j].at
       /\ ~svc.calls[k].cached /\ svc.calls[k].held = svc.calls[j].got
       /\ svc.calls[k].pc = "done" /\ svc.token = k

\* the sell and claim requests for inventory entry i that succeeded
Took(i) ==
    {r \in Sells \cup Claims : reqs[r].inv = i /\ reqs[r].resp = "OK"}

\* C23: as long as no operator has decided anything, at most one sell or
\* claim request succeeds for any one inventory entry (so its sell price is
\* credited at most once and it is never both sold and redeemed).
C23_SoldOnce ==
    (\A r \in DOMAIN reqs : reqs[r].kind # "decide")
        => \A i \in DOMAIN db.inventory : Cardinality(Took(i)) <= 1

\* the lifecycle of an inventory entry (PENDING -> SOLD is revision 1's
\* available -> sold)
LifecycleEdges ==
    { << "available", "sold" >>, << "available", "processing" >>,
      << "available", "received" >>, << "processing", "received" >>,
      << "processing", "available" >>, << "PENDING", "SOLD" >> }

\* C24: the committed status of an inventory entry changes only along the
\* lifecycle edges; sold and received are terminal.
C24_Lifecycle ==
    [][\A i \in DOMAIN snap.inventory :
          \/ snap'.inventory[i].status = snap.inventory[i].status
          \/ << snap.inventory[i].status, snap'.inventory[i].status >> \in LifecycleEdges]_vars

\* the pending redemption requests linked to inventory entry i in state d
PendingFor(d, i) ==
    {j \in DOMAIN d.requests :
        d.requests[j].inventory_id = i /\ d.requests[j].status = "pending"}

\* C25: in every committed state each processing inventory entry has
\* exactly one pending redemption request linked to it, and each pending
\* request is linked to a processing entry owned by the request's user.
C25_ProcessingIffPending ==
    /\ \A i \in DOMAIN snap.inventory :
          snap.inventory[i].status = "processing"
             => Cardinality(PendingFor(snap, i)) = 1
    /\ \A j \in DOMAIN snap.requests :
          snap.requests[j].status = "pending"
             => /\ OwnRow(snap, snap.requests[j].inventory_id, snap.requests[j].user_uuid)
                /\ snap.inventory[snap.requests[j].inventory_id].status = "processing"

\* case_claims holds a row of user u and case c under period key k
ClaimedUnder(u, c, k) ==
    \E i \in DOMAIN db.case_claims :
        /\ db.case_claims[i].user_uuid = u
        /\ db.case_claims[i].case_id = c
        /\ db.case_claims[i].period_key = k

\* C26: an open takes the period key of the Riga day (daily case) or month
\* (monthly case) on which it reads the clock, and it is answered
\* ALREADY_OPENED exactly when case_claims holds a row of its user and case
\* under that very key: a claim under another day's or month's key never
\* blocks it.
C26_BlocksOnlyItsPeriod ==
    [][\A r \in DOMAIN reqs :
          (reqs[r].kind = "open" /\ reqs'[r] # reqs[r]) =>
             /\ (reqs[r].pc = "o_case" /\ reqs'[r].pc = "o_claimed") =>
                    reqs'[r].pkey =
                       IF db.cases[reqs[r].case].type = "daily"
                       THEN getRigaDayKey(now) ELSE getRigaMonthKey(now)
             /\ (reqs[r].pc = "o_claimed") =>
                    (reqs'[r].resp = "ALREADY_OPENED"
                        <=> ClaimedUnder(reqs[r].user, reqs[r].case, reqs[r].pkey))]_vars

\* a user who holds a claim of the day before is granted the same daily
\* case again
C26_Witness ==
    \E r \in Opens :
       /\ reqs[r].resp = "OK"
       /\ reqs[r].pkey = getRigaDayKey(1)
       /\ ClaimedUnder(reqs[r].user, reqs[r].case, getRigaDayKey(0))
       /\ ClaimedUnder(reqs[r].user, reqs[r].case, getRigaDayKey(1))

\* C27: a draw over non-empty contents returns a link of the case, and when
\* the walk leaves no link with r <= 0 it returns the last link.
C27_FallbackIsLast ==
    draw.pc = "drawn" =>
       /\ draw.sel \in 1..Len(draw.cis)
       /\ Walk(draw.cis, draw.rnd2, 1) = 0 => draw.sel = Len(draw.cis)

\* C28: a request whose token belongs to a session whose expires_at has
\* passed is answered like one with an unknown token.
C28_ExpiredRejected ==
    [][\A r \in DOMAIN reqs :
          ( /\ reqs[r].pc = "m_get" /\ reqs'[r] # reqs[r]
            /\ \E x \in SessionOf(db, reqs[r].token) : x.expires_at < now )
             => reqs'[r].resp = "INVALID_SESSION"]_vars

\* C29: the spins row written by a successful open carries the period_key
\* of the case_claims row written by the same open.
C29_SpinKeyIsClaimKey ==
    \A r \in Opens :
       reqs[r].resp = "OK" =>
          \A i \in RowsOf("spins", r), j \in RowsOf("case_claims", r) :
             db.spins[i].period_key = db.case_claims[j].period_key

\* request r is a sell or a claim naming an inventory entry of another user
Foreign(r) ==
    /\ reqs[r].kind \in {"sell", "claim"}
    /\ reqs[r].inv \in DOMAIN db.inventory
    /\ db.inventory[reqs[r].inv].user_uuid # reqs[r].user

\* C30: a sell or claim naming an inventory entry that belongs to another
\* user writes nothing (the entry's status and the requests table stay as
\* they are) and is answered with a failure.
C30_OwnEntriesOnly ==
    [][\A r \in DOMAIN reqs :
          (Foreign(r) /\ reqs'[r] # reqs[r]) =>
             /\ db' = db
             /\ reqs'[r].pc = "done"
             /\ reqs'[r].resp \in {"ITEM_NOT_FOUND", "NOT_AVAILABLE"}]_vars

\* a sell or claim of another user's entry, which its owner could have sold
\* or claimed, has been refused
C30_Witness ==
    \E r \in Sells \cup Claims :
       /\ Foreign(r) /\ Done(r)
       /\ db.inventory[reqs[r].inv].status = GrantStatus(rev)
       /\ reqs[r].resp \in {"ITEM_NOT_FOUND", "NOT_AVAILABLE"}

====
